---- MODULE Spec2Model ----
(***************************************************************************)
(* vgra: the command-line token parser (std PythonicArgParser) and the     *)
(* ArgParser helpers it is built on.                                       *)
(*                                                                         *)
(* A Python str is modelled as the sequence of its characters, each a     *)
(* one-character TLA+ string: the token "[1" is <<"[", "1">>.  A list of   *)
(* tokens is a sequence of such sequences.  Parsed values are tagged       *)
(* records [t |-> tag, v |-> payload] so that values of different Python   *)
(* types can be compared.                                                  *)
(***************************************************************************)
EXTENDS Integers, Sequences, FiniteSets, TLC

VARIABLES
    pc,             \* "loop" | "returned" | "raised" | "value" | "value_done"
    tokens,         \* parse(): the local `tokens`
    argd,           \* parse(): the local `argd` (working spec list)
    xs_tokens,      \* parse(): the local `xs_tokens`
    args,           \* parse(): the local `args`
    kwargs,         \* parse(): the local `kwargs` (insertion-ordered dict)
    aliased,        \* TRUE while the local `tokens` is the caller's list object
    caller_tokens,  \* contents of the list object the caller passed as tokens
    caller_argd,    \* contents of the list object the caller passed as argd
    in_tokens,      \* the token vector as it was when the call was made
    ret             \* what the call returned or raised

vars == <<pc, tokens, argd, xs_tokens, args, kwargs, aliased,
          caller_tokens, caller_argd, in_tokens, ret>>

(***************************************************************************)
(* Characters and strings                                                  *)
(***************************************************************************)
Letters ==
    {"a","b","c","d","e","f","g","h","i","j","k","l","m",
     "n","o","p","q","r","s","t","u","v","w","x","y","z",
     "A","B","C","D","E","F","G","H","I","J","K","L","M",
     "N","O","P","Q","R","S","T","U","V","W","X","Y","Z","_"}

Digits == {"0","1","2","3","4","5","6","7","8","9"}

\* the value of a digit character in int(t, base)
DigitVal(c) ==
    CASE c = "0" -> 0  [] c = "1" -> 1  [] c = "2" -> 2  [] c = "3" -> 3
      [] c = "4" -> 4  [] c = "5" -> 5  [] c = "6" -> 6  [] c = "7" -> 7
      [] c = "8" -> 8  [] c = "9" -> 9
      [] c \in {"a","A"} -> 10  [] c \in {"b","B"} -> 11
      [] c \in {"c","C"} -> 12  [] c \in {"d","D"} -> 13
      [] c \in {"e","E"} -> 14  [] c \in {"f","F"} -> 15
      [] OTHER -> 99

\* str.startswith / str.endswith / str.removeprefix / str.removesuffix
\* for a one-character prefix or suffix
startswith(t, c) == Len(t) > 0 /\ t[1] = c
endswith(t, c) == Len(t) > 0 /\ t[Len(t)] = c
removeprefix(t, c) == IF startswith(t, c) THEN Tail(t) ELSE t
removesuffix(t, c) == IF endswith(t, c) THEN SubSeq(t, 1, Len(t) - 1) ELSE t

\* str.startswith for a two-character prefix
startswith2(t, c1, c2) == Len(t) > 1 /\ t[1] = c1 /\ t[2] = c2

\* the regular expression ident = [a-zA-Z_]+[a-zA-Z0-9_]*
IsIdent(s) ==
    /\ Len(s) > 0
    /\ s[1] \in Letters
    /\ \A i \in 1..Len(s) : s[i] \in Letters \cup Digits

\* index of the first occurrence of character c in t, 0 when there is none
FirstIndex(t, c) ==
    IF \E i \in 1..Len(t) : t[i] = c
    THEN CHOOSE i \in 1..Len(t) : t[i] = c /\ \A j \in 1..(i - 1) : t[j] # c
    ELSE 0

\* Python's None, where a str is expected: no token contains a character
\* that is longer than one character
None == <<"None">>

(***************************************************************************)
(* Construction-time configuration: the defaults of __init__               *)
(***************************************************************************)
kw_eq_char == "="
kw_flag_char == "-"
list_chars == <<"[", "]">>
dict_chars == <<"{", ":", "}">>

(***************************************************************************)
(* Parsed values, errors and parse results                                 *)
(***************************************************************************)
StrVal(s) == [t |-> "str", v |-> s]
IntVal(n) == [t |-> "int", v |-> n]
BoolVal(b) == [t |-> "bool", v |-> b]
ListVal(l) == [t |-> "list", v |-> l]
\* a dict is the sequence of its items [k, v] in insertion order
DictVal(d) == [t |-> "dict", v |-> d]
NoVal == [t |-> "none", v |-> <<>>]

NoErr == [type |-> "none", received |-> <<>>, expected |-> ""]
ArgSyntaxError(received, expected) ==
    [type |-> "ArgSyntaxError", received |-> received, expected |-> expected]
\* ParseError(str(e)) of a ValueError of int(): the message names the literal
ParseError(received, expected) ==
    [type |-> "ParseError", received |-> received, expected |-> expected]

\* a ParseResult_t, or the exception that left the call
Ok(val, toks) == [ok |-> TRUE, val |-> val, tokens |-> toks, err |-> NoErr]
Raise(e) == [ok |-> FALSE, val |-> NoVal, tokens |-> <<>>, err |-> e]

\* d[k] = v, were a key already present to keep its old value
RECURSIVE DictSet_first(_, _, _)
DictSet_first(d, k, v) ==
    IF Len(d) = 0 THEN <<[k |-> k, v |-> v]>>
    ELSE IF Head(d).k = k THEN d
    ELSE <<Head(d)>> \o DictSet_first(Tail(d), k, v)

\* d[k] = v on an insertion-ordered dict
RECURSIVE DictSet(_, _, _)
DictSet(d, k, v) ==
    IF Len(d) = 0 THEN <<[k |-> k, v |-> v]>>
    ELSE IF Head(d).k = k THEN <<[k |-> k, v |-> v]>> \o Tail(d)
    ELSE <<Head(d)>> \o DictSet(Tail(d), k, v)

(***************************************************************************)
(* Parser.next / Parser.peek                                               *)
(***************************************************************************)
next(toks) == [t |-> toks[1], tokens |-> Tail(toks)]
peek(toks) == toks[1]

(***************************************************************************)
(* Scalar decoders (std/value_parsers.py, DefaultValueParser)              *)
(***************************************************************************)
\* int(digits, base) for a string of digits valid in that base
RECURSIVE DigitsValue(_, _)
DigitsValue(s, base) ==
    IF Len(s) = 0 THEN 0
    ELSE DigitsValue(SubSeq(s, 1, Len(s) - 1), base) * base + DigitVal(s[Len(s)])

\* int(t, base): an optional sign, an optional prefix that agrees with the
\* base, then one or more digits of the base (tokens hold no whitespace and
\* no underscore between digits)
IntLiteral(t, base) ==
    LET neg == startswith(t, "-")
        unsigned == IF startswith(t, "-") \/ startswith(t, "+") THEN Tail(t) ELSE t
        prefixed ==
            \/ base = 16 /\ (startswith2(unsigned, "0", "x") \/ startswith2(unsigned, "0", "X"))
            \/ base = 8 /\ (startswith2(unsigned, "0", "o") \/ startswith2(unsigned, "0", "O"))
            \/ base = 2 /\ (startswith2(unsigned, "0", "b") \/ startswith2(unsigned, "0", "B"))
        body == IF prefixed THEN SubSeq(unsigned, 3, Len(unsigned)) ELSE unsigned
        valid == Len(body) > 0 /\ \A i \in 1..Len(body) : DigitVal(body[i]) < base
    IN  [valid |-> valid,
         value |-> IF valid
                   THEN (IF neg THEN 0 - DigitsValue(body, base) ELSE DigitsValue(body, base))
                   ELSE 0]

IntParser_parse(toks) ==
    LET n == next(toks)
        base == IF startswith2(n.t, "0", "x") THEN 16
                ELSE IF startswith2(n.t, "0", "o") THEN 8
                ELSE IF startswith2(n.t, "0", "b") THEN 2
                ELSE 10
        lit == IntLiteral(n.t, base)
    IN  IF lit.valid THEN Ok(IntVal(lit.value), n.tokens)
        ELSE Raise(ParseError(n.t, "int"))

DefaultValueParser_parse(toks) == Ok(StrVal(toks[1]), Tail(toks))

\* float(t) for the tokens of this model: an optional sign and decimal
\* digits (the alphabet holds no ".", and no pool token spells inf or nan)
FloatVal(n) == [t |-> "float", v |-> n]
FloatParser_parse(toks) ==
    LET lit == IntLiteral(toks[1], 10)
    IN  IF lit.valid THEN Ok(FloatVal(lit.value), Tail(toks))
        ELSE Raise(ParseError(toks[1], "float"))

(***************************************************************************)
(* Arg (args.py) and the ArgParser helpers (parser.py)                     *)
(***************************************************************************)
\* An Arg object.  id stands for the object's identity (`a is not arg`);
\* type is the name of the annotation: "int", "bool", "float", "str", or
\* "any" for a parameter without a concrete type.
Arg(id, kind, name, type) ==
    [id |-> id, kind |-> kind, name |-> name, names |-> <<name>>, type |-> type]

\* None, where an Arg is expected
NoArg == [id |-> 0, kind |-> "None", name |-> None, names |-> <<>>, type |-> "None"]

\* issubclass(arg.type, p.value_type) for the registered parsers, in the
\* order of DEFAULT_VALUE_PARSERS; bool is a subclass of int
resolve_value_parser(arg) ==
    IF arg = NoArg \/ arg.type = "any" THEN "default"
    ELSE IF arg.type \in {"int", "bool"} THEN "int"
    ELSE IF arg.type = "float" THEN "float"
    ELSE "default"

\* value_parser.parse(tokens) for the parser resolve_value_parser chose
value_parser_parse(p, toks) ==
    IF p = "int" THEN IntParser_parse(toks)
    ELSE IF p = "float" THEN FloatParser_parse(toks)
    ELSE DefaultValueParser_parse(toks)

\* get_kwarg, were it to hand back the list with the matched spec still in it
get_kwarg_keep(specs, name) ==
    LET hits == {i \in 1..Len(specs) : specs[i].name = name}
    IN  [arg |-> IF hits = {} THEN NoArg
                 ELSE specs[CHOOSE i \in hits : \A j \in hits : i <= j],
         args |-> specs]

\* the first spec whose name equals `name`, removed from the list by identity
get_kwarg(specs, name) ==
    LET hits == {i \in 1..Len(specs) : specs[i].name = name}
        arg == IF hits = {} THEN NoArg
               ELSE specs[CHOOSE i \in hits : \A j \in hits : i <= j]
    IN  [arg |-> arg,
         args |-> SelectSeq(specs, LAMBDA a : a.id # arg.id)]

\* get_arg, were it to leave the spec it hands out in the list
get_arg_keep(specs) ==
    IF Len(specs) = 0 THEN [arg |-> NoArg, args |-> specs]
    ELSE IF specs[1].kind \notin {"POS", "POSKW", "VPOS"}
         THEN [arg |-> NoArg, args |-> specs]
    ELSE [arg |-> specs[1], args |-> specs]

\* get_arg, were it to take the spec from the tail end of the list
get_arg_last(specs) ==
    IF Len(specs) = 0 THEN [arg |-> NoArg, args |-> specs]
    ELSE IF specs[Len(specs)].kind \notin {"POS", "POSKW", "VPOS"}
         THEN [arg |-> NoArg, args |-> specs]
    ELSE [arg |-> specs[Len(specs)], args |-> SubSeq(specs, 1, Len(specs) - 1)]

\* the head of the list when its kind takes positionals
get_arg(specs) ==
    IF Len(specs) = 0 THEN [arg |-> NoArg, args |-> specs]
    ELSE IF specs[1].kind \notin {"POS", "POSKW", "VPOS"}
         THEN [arg |-> NoArg, args |-> specs]
    ELSE [arg |-> specs[1], args |-> Tail(specs)]

\* get_kwarg and get_arg, were they to take the matched spec out of the list
\* they are given
given_list_popped(specs, arg) == SelectSeq(specs, LAMBDA a : a.id # arg.id)

\* the contents, after get_kwarg or get_arg has run, of a list object whose
\* contents were specs before: get_kwarg builds the list it returns with a
\* comprehension and get_arg returns the list itself or the slice args[1:],
\* and neither assigns into the list it is given
given_list(specs, arg) == specs

(***************************************************************************)
(* PythonicArgParser: token splitting                                      *)
(***************************************************************************)
\* re.compile(rf"^({ident}){sep}(.*)$") applied as split_kw_val and
\* split_dict_kw_val apply it: the identifier ends at the first separator;
\* an empty remainder is dropped by `if len(s) > 0`, which leaves val None
split_at(token, sep) ==
    LET i == FirstIndex(token, sep)
    IN  IF i > 1 /\ IsIdent(SubSeq(token, 1, i - 1))
        THEN [kw |-> SubSeq(token, 1, i - 1),
              val |-> IF i = Len(token) THEN None
                      ELSE SubSeq(token, i + 1, Len(token))]
        ELSE [kw |-> None, val |-> token]

split_kw_val(token) == split_at(token, kw_eq_char)

\* split_dict_kw_val, were it to keep an empty remainder as the value
split_dict_kw_val_empty(token) ==
    IF split_at(token, dict_chars[2]).kw # None /\ split_at(token, dict_chars[2]).val = None
    THEN [kw |-> split_at(token, dict_chars[2]).kw, val |-> <<>>]
    ELSE split_at(token, dict_chars[2])

split_dict_kw_val(token) == split_at(token, dict_chars[2])

is_list_start(t) == t = <<list_chars[1]>>
is_list_end(t) == t = <<list_chars[2]>>
is_dict_start(t) == t = <<dict_chars[1]>>
is_dict_end(t) == t = <<dict_chars[3]>>

\* strips the closing delimiters glued to the end of t, one per turn of the
\* loop, inserting each at the head of tokens
RECURSIVE split_container_ends(_, _)
split_container_ends(t, toks) ==
    IF endswith(t, list_chars[2])
    THEN split_container_ends(removesuffix(t, list_chars[2]),
                              <<(<<list_chars[2]>>)>> \o toks)
    ELSE IF endswith(t, dict_chars[3])
    THEN split_container_ends(removesuffix(t, dict_chars[3]),
                              <<(<<dict_chars[3]>>)>> \o toks)
    ELSE [t |-> t, tokens |-> toks]
(***************************************************************************)
(* PythonicArgParser: the composite literal reader                         *)
(***************************************************************************)
\* `tokens[0] = t.removeprefix(list_chars[0])`, as parse_value and
\* eat_value do it in place on the list they were given
open_list(toks) == <<removeprefix(toks[1], list_chars[1])>> \o Tail(toks)

\* `tokens[0] = t.removeprefix(dict_chars[0])` and, when that leaves the
\* empty string, `tokens.pop(0)`
open_dict(toks) ==
    IF Len(removeprefix(toks[1], dict_chars[1])) = 0 THEN Tail(toks)
    ELSE <<removeprefix(toks[1], dict_chars[1])>> \o Tail(toks)

RECURSIVE parse_value(_, _), parse_list_loop(_, _, _), parse_dict_loop(_, _, _)

\* the while loop of parse_list, were it to take the mapping's closing
\* delimiter as the end of the list
parse_list_loop_lenient(l, toks, arg) ==
    IF Len(toks) = 0 THEN Ok(ListVal(l), toks)
    ELSE LET n == next(toks) IN
         IF is_dict_end(n.t) \/ is_list_end(n.t) THEN Ok(ListVal(l), n.tokens)
         ELSE LET s == split_container_ends(n.t, n.tokens)
                  r == parse_value(<<s.t>> \o s.tokens, arg)
              IN  IF r.ok THEN parse_list_loop(Append(l, r.val), r.tokens, arg)
                  ELSE r

\* the while loop of parse_list, l being the list built so far; the loop
\* also ends, without an error, when tokens runs out
parse_list_loop(l, toks, arg) ==
    IF Len(toks) = 0 THEN Ok(ListVal(l), toks)
    ELSE LET n == next(toks) IN
         IF is_dict_end(n.t) THEN Raise(ArgSyntaxError(n.t, "value or ]"))
         ELSE IF is_list_end(n.t) THEN Ok(ListVal(l), n.tokens)
         ELSE LET s == split_container_ends(n.t, n.tokens)
                  r == parse_value(<<s.t>> \o s.tokens, arg)
              IN  IF r.ok THEN parse_list_loop(Append(l, r.val), r.tokens, arg)
                  ELSE r

parse_list(toks, arg) == parse_list_loop(<<>>, toks, arg)

\* the while loop of parse_dict, d being the dict built so far
parse_dict_loop(d, toks, arg) ==
    IF Len(toks) = 0 THEN Ok(DictVal(d), toks)
    ELSE LET n == next(toks) IN
         IF is_list_end(n.t) THEN Raise(ArgSyntaxError(n.t, "key:value or }"))
         ELSE IF is_dict_end(n.t) THEN Ok(DictVal(d), n.tokens)
         ELSE LET s == split_container_ends(n.t, n.tokens)
                  kv == split_dict_kw_val(s.t)
              IN  IF kv.kw = None \/ kv.val = None
                  THEN Raise(ArgSyntaxError(s.t, "Key:Value"))
                  ELSE LET r == parse_value(<<kv.val>> \o s.tokens, arg)
                       IN  IF r.ok
                           THEN parse_dict_loop(DictSet(d, kv.kw, r.val), r.tokens, arg)
                           ELSE r

parse_dict(toks, arg) == parse_dict_loop(<<>>, toks, arg)

parse_value(toks, arg) ==
    IF Len(toks) = 0 THEN Ok(StrVal(<<>>), toks)
    ELSE IF startswith(peek(toks), list_chars[1])
         THEN parse_list(open_list(toks), arg)
    ELSE IF startswith(peek(toks), dict_chars[1])
         THEN parse_dict(open_dict(toks), arg)
    ELSE value_parser_parse(resolve_value_parser(arg), toks)

RECURSIVE eat_value(_, _), eat_list_loop(_, _, _), eat_dict_loop(_, _, _)

\* the while loop of eat_list, l being the tokens eaten so far
eat_list_loop(l, toks, arg) ==
    IF Len(toks) = 0 THEN Ok(l, toks)
    ELSE LET n == next(toks) IN
         IF is_dict_end(n.t) THEN Raise(ArgSyntaxError(n.t, "value or ]"))
         ELSE IF is_list_end(n.t) THEN Ok(l \o <<(<<list_chars[2]>>)>>, n.tokens)
         ELSE LET s == split_container_ends(n.t, n.tokens)
                  r == eat_value(<<s.t>> \o s.tokens, arg)
              IN  IF r.ok THEN eat_list_loop(l \o r.val, r.tokens, arg)
                  ELSE r

eat_list(toks, arg) == eat_list_loop(<<>>, toks, arg)

\* the while loop of eat_dict, d being the tokens eaten so far
eat_dict_loop(d, toks, arg) ==
    IF Len(toks) = 0 THEN Ok(d, toks)
    ELSE LET n == next(toks) IN
         IF is_list_end(n.t) THEN Raise(ArgSyntaxError(n.t, "key:value or }"))
         ELSE IF is_dict_end(n.t) THEN Ok(d \o <<(<<dict_chars[3]>>)>>, n.tokens)
         ELSE LET s == split_container_ends(n.t, n.tokens)
                  kv == split_dict_kw_val(s.t)
              IN  IF kv.kw = None \/ kv.val = None
                  THEN Raise(ArgSyntaxError(s.t, "Key:Value"))
                  ELSE LET r == eat_value(<<kv.val>> \o s.tokens, arg)
                       IN  IF r.ok
                           THEN eat_dict_loop(
                                    d \o <<kv.kw \o <<dict_chars[2]>> \o r.val[1]>>
                                      \o Tail(r.val),
                                    r.tokens, arg)
                           ELSE r

eat_dict(toks, arg) == eat_dict_loop(<<>>, toks, arg)

eat_value(toks, arg) ==
    IF Len(toks) = 0 THEN Ok(<<>>, toks)
    ELSE IF startswith(peek(toks), list_chars[1])
         THEN LET r == eat_list(open_list(toks), arg)
              IN  IF r.ok THEN Ok(<<(<<list_chars[1]>>)>> \o r.val, r.tokens) ELSE r
    ELSE IF startswith(peek(toks), dict_chars[1])
         THEN LET r == eat_dict(open_dict(toks), arg)
              IN  IF r.ok THEN Ok(<<(<<dict_chars[1]>>)>> \o r.val, r.tokens) ELSE r
    ELSE Ok(<<next(toks).t>>, next(toks).tokens)
(***************************************************************************)
(* PythonicArgParser.parse: the resolver loop                              *)
(***************************************************************************)
NoRet ==
    [kind |-> "none", positionals |-> <<>>, keywords |-> <<>>,
     leftover |-> <<>>, val |-> NoVal, tokens |-> <<>>, err |-> NoErr]

\* the locals of a call parse(toks, specs) at the head of its loop
Start(toks, specs) ==
    [pc |-> "loop", tokens |-> toks, argd |-> specs, xs_tokens |-> <<>>,
     args |-> <<>>, kwargs |-> <<>>, aliased |-> TRUE,
     caller_tokens |-> toks, caller_argd |-> specs, in_tokens |-> toks,
     ret |-> NoRet]

\* an exception leaves parse
Raised(s, e) == [s EXCEPT !.pc = "raised", !.ret = [NoRet EXCEPT !.kind = "raise", !.err = e]]

\* `while len(tokens) > 0 and len(argd) > 0`
loop_cond(s) == Len(s.tokens) > 0 /\ Len(s.argd) > 0

\* `if t.startswith(self._kw_flag_char)`
is_name(s) == startswith(peek(s.tokens), kw_flag_char)

\* `if kw is not None`, of the name that follows the flag character
is_kw_value(s) == split_kw_val(removeprefix(peek(s.tokens), kw_flag_char)).kw # None

\* the `-kw=value` branch, were it to decode the value without regard to the
\* matched spec's declared type
kw_value_iter_untyped(s) ==
    LET n == next(s.tokens)
        kv == split_kw_val(removeprefix(n.t, kw_flag_char))
        toks == IF kv.val # None THEN <<kv.val>> \o n.tokens ELSE n.tokens
        g == get_kwarg(s.argd, kv.kw)
        r == IF g.arg = NoArg THEN eat_value(toks, g.arg) ELSE parse_value(toks, NoArg)
    IN  IF ~r.ok
        THEN Raised([s EXCEPT !.aliased = FALSE,
                              !.caller_argd = given_list(@, g.arg)], r.err)
        ELSE IF g.arg = NoArg
        THEN [s EXCEPT !.tokens = r.tokens, !.argd = g.args,
                       !.caller_argd = given_list(@, g.arg), !.aliased = FALSE,
                       !.xs_tokens = @ \o <<(<<kw_flag_char>> \o kv.kw \o <<kw_eq_char>>)>>
                                       \o r.val]
        ELSE [s EXCEPT !.tokens = r.tokens, !.argd = g.args,
                       !.caller_argd = given_list(@, g.arg), !.aliased = FALSE,
                       !.kwargs = DictSet(@, g.arg.name, [arg |-> g.arg, val |-> r.val])]

\* "we have -kw=value": one iteration of the loop
kw_value_iter(s) ==
    LET n == next(s.tokens)
        kv == split_kw_val(removeprefix(n.t, kw_flag_char))
        toks == IF kv.val # None THEN <<kv.val>> \o n.tokens ELSE n.tokens
        g == get_kwarg(s.argd, kv.kw)
    IN  IF g.arg = NoArg
        THEN LET r == eat_value(toks, g.arg)
             IN  IF r.ok
                 THEN [s EXCEPT !.tokens = r.tokens, !.argd = g.args,
                           !.caller_argd = given_list(@, g.arg), !.aliased = FALSE,
                           !.xs_tokens = @ \o <<(<<kw_flag_char>> \o kv.kw \o <<kw_eq_char>>)>>
                                           \o r.val]
                 ELSE Raised([s EXCEPT !.aliased = FALSE,
                                       !.caller_argd = given_list(@, g.arg)], r.err)
        ELSE LET r == parse_value(toks, g.arg)
             IN  IF r.ok
                 THEN [s EXCEPT !.tokens = r.tokens, !.argd = g.args,
                           !.caller_argd = given_list(@, g.arg), !.aliased = FALSE,
                           !.kwargs = DictSet(@, g.arg.name, [arg |-> g.arg, val |-> r.val])]
                 ELSE Raised([s EXCEPT !.aliased = FALSE,
                                       !.caller_argd = given_list(@, g.arg)], r.err)

\* the `-kw` branch, were it to drop a flag that names no spec
kw_flag_iter_drop(s) ==
    LET n == next(s.tokens)
        k == removeprefix(n.t, kw_flag_char)
        g == get_kwarg(s.argd, k)
    IN  IF g.arg = NoArg
        THEN [s EXCEPT !.tokens = n.tokens, !.argd = g.args,
                       !.caller_argd = given_list(@, g.arg),
                       !.aliased = FALSE]
        ELSE [s EXCEPT !.tokens = n.tokens, !.argd = g.args,
                       !.caller_argd = given_list(@, g.arg), !.aliased = FALSE,
                  !.kwargs = DictSet(@, g.arg.name, [arg |-> g.arg, val |-> BoolVal(TRUE)])]

\* the `-kw` branch, were it to read the token after a known flag as the
\* flag's value
kw_flag_iter_value(s) ==
    LET n == next(s.tokens)
        k == removeprefix(n.t, kw_flag_char)
        g == get_kwarg(s.argd, k)
        r == parse_value(n.tokens, g.arg)
    IN  IF g.arg = NoArg
        THEN [s EXCEPT !.tokens = n.tokens, !.argd = g.args,
                       !.caller_argd = given_list(@, g.arg), !.aliased = FALSE,
                  !.xs_tokens = @ \o <<(<<kw_flag_char>> \o k)>>]
        ELSE IF r.ok
        THEN [s EXCEPT !.tokens = r.tokens, !.argd = g.args,
                       !.caller_argd = given_list(@, g.arg), !.aliased = FALSE,
                  !.kwargs = DictSet(@, g.arg.name, [arg |-> g.arg, val |-> r.val])]
        ELSE Raised([s EXCEPT !.aliased = FALSE,
                                       !.caller_argd = given_list(@, g.arg)], r.err)

\* the `-kw` branch, were it to look at the head token with peek and leave it
\* on the stream
kw_flag_iter_peek(s) ==
    LET k == removeprefix(peek(s.tokens), kw_flag_char)
        g == get_kwarg(s.argd, k)
    IN  IF g.arg = NoArg
        THEN [s EXCEPT !.argd = g.args,
                       !.caller_argd = given_list(@, g.arg), !.aliased = FALSE,
                  !.xs_tokens = @ \o <<(<<kw_flag_char>> \o k)>>]
        ELSE [s EXCEPT !.argd = g.args,
                       !.caller_argd = given_list(@, g.arg), !.aliased = FALSE,
                  !.kwargs = DictSet(@, g.arg.name, [arg |-> g.arg, val |-> BoolVal(TRUE)])]

\* "we have -kw": one iteration of the loop
kw_flag_iter(s) ==
    LET n == next(s.tokens)
        k == removeprefix(n.t, kw_flag_char)
        g == get_kwarg(s.argd, k)
    IN  IF g.arg = NoArg
        THEN [s EXCEPT !.tokens = n.tokens, !.argd = g.args,
                       !.caller_argd = given_list(@, g.arg), !.aliased = FALSE,
                  !.xs_tokens = @ \o <<(<<kw_flag_char>> \o k)>>]
        ELSE [s EXCEPT !.tokens = n.tokens, !.argd = g.args,
                       !.caller_argd = given_list(@, g.arg), !.aliased = FALSE,
                  !.kwargs = DictSet(@, g.arg.name, [arg |-> g.arg, val |-> BoolVal(TRUE)])]

\* what parse_value and eat_value assign in place to the list they are given
\* before they rebind their local to a copy
in_place(toks) ==
    IF startswith(peek(toks), list_chars[1]) THEN open_list(toks)
    ELSE IF startswith(peek(toks), dict_chars[1]) THEN open_dict(toks)
    ELSE toks

\* "we have a pos arg": one iteration of the loop.  eat_value and
\* parse_value work on the list object parse holds; while that is the
\* caller's, their in-place assignments show in the caller's list.
pos_iter(s) ==
    LET g == get_arg(s.argd)
        seen == IF s.aliased THEN in_place(s.tokens) ELSE s.caller_tokens
        same == s.aliased /\ Len(in_place(s.tokens)) = 0
    IN  IF g.arg = NoArg
        THEN LET r == eat_value(s.tokens, g.arg)
             IN  IF r.ok
                 THEN [s EXCEPT !.tokens = r.tokens, !.argd = g.args,
                           !.caller_argd = given_list(@, g.arg),
                           !.aliased = same, !.caller_tokens = seen,
                           !.xs_tokens = @ \o r.val]
                 ELSE Raised([s EXCEPT !.aliased = same, !.caller_tokens = seen,
                                       !.caller_argd = given_list(@, g.arg)], r.err)
        ELSE LET r == parse_value(s.tokens, g.arg)
             IN  IF r.ok
                 THEN [s EXCEPT !.tokens = r.tokens, !.argd = g.args,
                           !.caller_argd = given_list(@, g.arg),
                           !.aliased = same, !.caller_tokens = seen,
                           !.args = Append(@, [arg |-> g.arg, val |-> r.val])]
                 ELSE Raised([s EXCEPT !.aliased = same, !.caller_tokens = seen,
                                       !.caller_argd = given_list(@, g.arg)], r.err)

\* `return (args, kwargs), xs_tokens + tokens`
parse_return(s) ==
    [s EXCEPT !.pc = "returned",
              !.ret = [NoRet EXCEPT !.kind = "return", !.positionals = s.args,
                                    !.keywords = s.kwargs,
                                    !.leftover = s.xs_tokens \o s.tokens]]

\* one turn of the loop, or the return that follows it
parse_iter(s) ==
    IF ~loop_cond(s) THEN parse_return(s)
    ELSE IF is_name(s)
         THEN (IF is_kw_value(s) THEN kw_value_iter(s) ELSE kw_flag_iter(s))
    ELSE pos_iter(s)

\* the whole call, from the locals s on
RECURSIVE parse_run(_)
parse_run(s) == IF s.pc # "loop" THEN s ELSE parse_run(parse_iter(s))

\* parse(tokens, argd): what the call returns or raises
parse(toks, specs) == parse_run(Start(toks, specs)).ret
(***************************************************************************)
(* Inputs: the token vectors and spec lists the calls are made with        *)
(***************************************************************************)
\* the longest token vector passed to parse
MaxTokens == 3

\* the most tokens that follow the opening token of a literal passed to
\* parse_value
MaxRest == 4

\* specs: p, q take positionals; v, rot are keyword-only; w is *args
ArgP == [kind |-> "POSKW", name |-> <<"p">>, type |-> "str"]
ArgQ == [kind |-> "POS", name |-> <<"q">>, type |-> "any"]
ArgV == [kind |-> "KW", name |-> <<"v">>, type |-> "bool"]
ArgRot == [kind |-> "KW", name |-> <<"r","o","t">>, type |-> "int"]
ArgW == [kind |-> "VPOS", name |-> <<"w">>, type |-> "str"]
ArgN == [kind |-> "POSKW", name |-> <<"n">>, type |-> "int"]

\* a list of distinct Arg objects built from the shapes in l
MkArgd(l) == [i \in 1..Len(l) |-> Arg(i, l[i].kind, l[i].name, l[i].type)]

ArgdPool ==
    {MkArgd(l) : l \in {<<>>, <<ArgP>>, <<ArgP, ArgQ>>, <<ArgP, ArgV, ArgRot>>,
                        <<ArgRot, ArgP>>, <<ArgW, ArgQ>>, <<ArgW>>,
                        <<ArgN, ArgV>>}}

TokenPool ==
    {<<"-","v">>, <<"-","r","o","t">>, <<"-","r","o","t","=","5">>,
     <<"-","r","o","t","=">>, <<"-","x">>, <<"-","x","=","1">>,
     <<"5">>, <<"a">>, <<"[","1">>, <<"2","]">>}

\* literals handed to parse_value: an opening token, then tokens of the pool
ListFirst == {<<"[">>, <<"[","1">>}
ListRest == {<<"]">>, <<"1">>, <<"2">>, <<"2","]">>, <<"[">>, <<"}">>, <<"1","}">>}
DictFirst == {<<"{">>, <<"{","a",":","1">>}
DictRest == {<<"}">>, <<"a",":","1">>, <<"b",":","2">>, <<"a",":","9">>,
             <<"a","b","c">>, <<"a",":">>, <<"b",":","2","}">>, <<"c","}">>,
             <<"]">>, <<"a",":","1","]">>}
ValueArgs == {Arg(1, "POSKW", <<"n">>, "int"), Arg(1, "POSKW", <<"p">>, "str")}

\* a second family of calls: a spec with an alias (names = ["help", "h"], as
\* the examples declare it), keyword-only specs ahead of positional ones,
\* keyword tokens that carry their value inline, and name=value without the
\* flag character
ArgHelp ==
    [Arg(1, "KW", <<"h","e","l","p">>, "bool")
        EXCEPT !.names = <<(<<"h","e","l","p">>), (<<"h">>)>>]

KwArgdPool ==
    {<<ArgHelp, Arg(2, "POSKW", <<"p">>, "str")>>,
     <<Arg(1, "POSKW", <<"p">>, "str"), Arg(2, "POSKW", <<"n">>, "int")>>,
     <<Arg(1, "POSKW", <<"n">>, "int"), Arg(2, "POSKW", <<"p">>, "str"),
       [ArgHelp EXCEPT !.id = 3]>>}

KwTokenPool ==
    {<<"-","h">>, <<"-","h","e","l","p">>, <<"-","p","=","a">>,
     <<"-","p","=","a","=","b">>, <<"-","n","=","5">>, <<"-","n","=","[","1">>,
     <<"2","]">>, <<"p","=","5">>, <<"5">>, <<"{">>}

(***************************************************************************)
(* The state machine of a call parse(tokens, argd)                         *)
(***************************************************************************)
\* the locals of the running call, as a record
Cur ==
    [pc |-> pc, tokens |-> tokens, argd |-> argd, xs_tokens |-> xs_tokens,
     args |-> args, kwargs |-> kwargs, aliased |-> aliased,
     caller_tokens |-> caller_tokens, caller_argd |-> caller_argd,
     in_tokens |-> in_tokens, ret |-> ret]

Apply(s) ==
    /\ pc' = s.pc
    /\ tokens' = s.tokens
    /\ argd' = s.argd
    /\ xs_tokens' = s.xs_tokens
    /\ args' = s.args
    /\ kwargs' = s.kwargs
    /\ aliased' = s.aliased
    /\ caller_tokens' = s.caller_tokens
    /\ caller_argd' = s.caller_argd
    /\ in_tokens' = s.in_tokens
    /\ ret' = s.ret

\* the call starts with the locals s
Begin(s) ==
    /\ pc = s.pc
    /\ tokens = s.tokens
    /\ argd = s.argd
    /\ xs_tokens = s.xs_tokens
    /\ args = s.args
    /\ kwargs = s.kwargs
    /\ aliased = s.aliased
    /\ caller_tokens = s.caller_tokens
    /\ caller_argd = s.caller_argd
    /\ in_tokens = s.in_tokens
    /\ ret = s.ret

Init ==
    \E k \in 0..MaxTokens :
        \/ \E toks \in [1..k -> TokenPool], specs \in ArgdPool :
               Begin(Start(toks, specs))
        \/ \E toks \in [1..k -> KwTokenPool], specs \in KwArgdPool :
               Begin(Start(toks, specs))

\* the next token is `-kw=...`
KwValue ==
    /\ pc = "loop" /\ loop_cond(Cur) /\ is_name(Cur) /\ is_kw_value(Cur)
    /\ Apply(kw_value_iter(Cur))

\* the next token is `-kw`
KwFlag ==
    /\ pc = "loop" /\ loop_cond(Cur) /\ is_name(Cur) /\ ~is_kw_value(Cur)
    /\ Apply(kw_flag_iter(Cur))

\* the next token is a positional
Positional ==
    /\ pc = "loop" /\ loop_cond(Cur) /\ ~is_name(Cur)
    /\ Apply(pos_iter(Cur))

\* the loop condition fails
Return ==
    /\ pc = "loop" /\ ~loop_cond(Cur)
    /\ Apply(parse_return(Cur))

Next == KwValue \/ KwFlag \/ Positional \/ Return

Spec == Init /\ [][Next]_vars

\* `while len(tokens) > 0 and len(argd) > 0` holds at the head of the loop:
\* the guard that KwValue, KwFlag and Positional share
Turn == pc = "loop" /\ loop_cond(Cur)

\* parse runs in the thread that called it and nothing can suspend it for
\* ever: the return is taken when the loop condition fails, and a turn of
\* the loop is taken when it holds.  For the turns, weak fairness of
\* KwValue \/ KwFlag \/ Positional is written out with the shared guard as
\* the enabling condition: a step of the program that leaves a state where
\* Turn holds is one of these three.
Fairness ==
    /\ WF_vars(Return)
    /\ ([]<>(~Turn) \/ []<><<Turn>>_vars)

SpecLive == Init /\ [][Next]_vars /\ Fairness

(***************************************************************************)
(* The state machine of a call parse_value(tokens, arg) on a literal       *)
(***************************************************************************)
\* the call parse_value(<<first>> \o rest, arg) is about to run
BeginValue(first, rest, arg) ==
    Begin([Start(<<first>> \o rest, <<arg>>) EXCEPT !.pc = "value"])

InitValue ==
    \E k \in 0..MaxRest, arg \in ValueArgs :
        \/ \E f \in ListFirst, r \in [1..k -> ListRest] : BeginValue(f, r, arg)
        \/ \E f \in DictFirst, r \in [1..k -> DictRest] : BeginValue(f, r, arg)

\* parse_value(tokens, argd[0]) runs to its return or to its exception
ParseValueCall ==
    /\ pc = "value"
    /\ LET r == parse_value(tokens, argd[1])
       IN  ret' = IF r.ok
                  THEN [NoRet EXCEPT !.kind = "return", !.val = r.val,
                                     !.tokens = r.tokens]
                  ELSE [NoRet EXCEPT !.kind = "raise", !.err = r.err]
    /\ caller_tokens' = in_place(tokens)
    /\ pc' = "value_done"
    /\ UNCHANGED <<tokens, argd, xs_tokens, args, kwargs, aliased,
                   caller_argd, in_tokens>>

NextValue == ParseValueCall

SpecValue == InitValue /\ [][NextValue]_vars
(***************************************************************************)
(* Properties                                                              *)
(***************************************************************************)
\* the characters of the token t
Chars(t) == {t[i] : i \in 1..Len(t)}

\* the specs of the list l that are named n, by position
Named(l, n) == {i \in 1..Len(l) : l[i].name = n}

\* the list l without its i-th element
Without(l, i) == SubSeq(l, 1, i - 1) \o SubSeq(l, i + 1, Len(l))

\* the next token of the running loop is the flag character followed by n
AtFlag(n) ==
    /\ pc = "loop" /\ Len(tokens) > 0 /\ Len(argd) > 0
    /\ tokens[1] = <<kw_flag_char>> \o n
    /\ kw_eq_char \notin Chars(n)

\* C1: when the loop meets the flag character followed by a name n (no "="
\* in it) and an unconsumed spec named n exists, the step binds n -> True in
\* keywords, removes that spec (the first one named n) from the working
\* list, and consumes the flag token only: the token after it stays at the
\* head of the stream for the next iteration, and positionals and leftover
\* are untouched.
C1_BareFlagStep ==
    \A n \in {Tail(t) : t \in TokenPool} :
        (AtFlag(n) /\ Named(argd, n) # {}) =>
            LET i == CHOOSE i \in Named(argd, n) : \A j \in Named(argd, n) : i <= j
            IN  /\ pc' = "loop"
                /\ \E e \in 1..Len(kwargs') :
                       /\ kwargs'[e].k = n
                       /\ kwargs'[e].v = [arg |-> argd[i], val |-> BoolVal(TRUE)]
                /\ \A e \in 1..Len(kwargs') :
                       kwargs'[e].k # n => e <= Len(kwargs) /\ kwargs'[e] = kwargs[e]
                /\ argd' = Without(argd, i)
                /\ tokens' = Tail(tokens)
                /\ args' = args
                /\ xs_tokens' = xs_tokens

C1_BareFlag == [][C1_BareFlagStep]_vars

\* C1 witness: the flag -v was bound to True and the token that followed it
\* is still at the head of the stream
C1_Witness ==
    /\ pc = "loop"
    /\ Len(in_tokens) = 2 /\ in_tokens[1] = <<"-", "v">>
    /\ tokens = Tail(in_tokens)
    /\ \E e \in 1..Len(kwargs) :
           kwargs[e].k = <<"v">> /\ kwargs[e].v.val = BoolVal(TRUE)

\* C7: when the loop meets a bare flag token that names no unconsumed spec,
\* the step appends exactly that token, unchanged, to leftover, adds nothing
\* to positionals or keywords, leaves the working spec list as it is and
\* consumes no other token; the returned leftover is the accumulated
\* leftover followed by the unread tokens.
C7_UnknownFlagStep ==
    \A n \in {Tail(t) : t \in TokenPool} :
        (AtFlag(n) /\ Named(argd, n) = {}) =>
            /\ pc' = "loop"
            /\ xs_tokens' = Append(xs_tokens, tokens[1])
            /\ tokens' = Tail(tokens)
            /\ argd' = argd
            /\ args' = args
            /\ kwargs' = kwargs

C7_UnknownFlag ==
    /\ [][C7_UnknownFlagStep]_vars
    /\ [](pc = "returned" => ret.leftover = xs_tokens \o tokens)

\* C7 witness: the call returned with the unknown -x in leftover, once, and
\* the positional after it bound
C7_Witness ==
    /\ pc = "returned"
    /\ in_tokens = <<(<<"-", "x">>), (<<"a">>)>>
    /\ ret.leftover = <<(<<"-", "x">>)>>
    /\ Len(ret.positionals) = 1
    /\ Len(argd) + 1 = Len(caller_argd)

\* the token holds no flag character and no list or mapping delimiter
Plain(t) == Chars(t) \cap {kw_flag_char, "[", "]", "{", "}"} = {}

\* C3: for a spec list of PositionalOnly / PositionalOrKeyword specs with
\* string or untyped values and tokens without flag or bracket characters,
\* the call does not raise and returns the i-th token bound to the i-th
\* spec for i up to min(#tokens, #specs), no keywords, and every further
\* token in leftover, unchanged and in order.
C3_Pre ==
    /\ \A i \in 1..Len(caller_argd) :
           /\ caller_argd[i].kind \in {"POS", "POSKW"}
           /\ caller_argd[i].type \in {"str", "any"}
    /\ \A i \in 1..Len(in_tokens) : Plain(in_tokens[i])

C3_PositionalOrder ==
    C3_Pre =>
        /\ pc # "raised"
        /\ pc = "returned" =>
            LET m == IF Len(in_tokens) < Len(caller_argd)
                     THEN Len(in_tokens) ELSE Len(caller_argd)
            IN  /\ ret.positionals =
                       [i \in 1..m |-> [arg |-> caller_argd[i], val |-> StrVal(in_tokens[i])]]
                /\ ret.keywords = <<>>
                /\ ret.leftover = SubSeq(in_tokens, m + 1, Len(in_tokens))

\* C3 witness: two specs bound in order and a third token left over
C3_Witness ==
    /\ pc = "returned" /\ C3_Pre
    /\ Len(caller_argd) = 2 /\ Len(in_tokens) = 3
    /\ in_tokens[1] # in_tokens[2]
    /\ Len(ret.positionals) = 2 /\ Len(ret.leftover) = 1

\* C10 (as claimed): with a VariadicPositional spec at the head of the spec
\* list, every plain positional token of the call is bound to that spec, one
\* positionals entry per token, and none goes to another spec or to
\* leftover.
C10_VariadicAbsorbs ==
    (/\ pc = "returned"
     /\ Len(caller_argd) > 0 /\ caller_argd[1].kind = "VPOS"
     /\ \A i \in 1..Len(in_tokens) : Plain(in_tokens[i]))
    => /\ Len(ret.positionals) = Len(in_tokens)
       /\ \A i \in 1..Len(ret.positionals) : ret.positionals[i].arg = caller_argd[1]
       /\ ret.leftover = <<>>

\* the call was made with two tokens, the first the flag character followed
\* by the name n of a spec of the list, without "="
FlagThenToken(n) ==
    /\ pc \in {"returned", "raised"}
    /\ Len(in_tokens) = 2
    /\ in_tokens[1] = <<kw_flag_char>> \o n
    /\ kw_eq_char \notin Chars(n)
    /\ Named(caller_argd, n) # {}

\* the first spec of the caller's list named n
FirstNamed(n) ==
    CHOOSE i \in Named(caller_argd, n) : \A j \in Named(caller_argd, n) : i <= j

\* the keywords mapping that holds the single binding n -> val for spec a
OneKeyword(n, a, val) == <<[k |-> n, v |-> [arg |-> a, val |-> val]]>>

IsNumber(t) == Len(t) > 0 /\ Chars(t) \subseteq Digits

\* the value an integer-typed or string-typed spec gives a digit token
Decoded(t, type) == IF type = "int" THEN IntVal(DigitsValue(t, 10)) ELSE StrVal(t)

\* toks is a list literal whose delimiters are tokens of their own:
\* '[', digit tokens, ']'
FreeList(toks) ==
    /\ Len(toks) >= 2
    /\ toks[1] = <<"[">> /\ toks[Len(toks)] = <<"]">>
    /\ \A i \in 2..(Len(toks) - 1) : IsNumber(toks[i])

\* C4 (as claimed): parse_value on ['[', v1, ..., vk, ']'] with an
\* integer-typed spec returns the sequence [int(v1), ..., int(vk)], the
\* empty sequence for k = 0, and consumes exactly the k + 2 tokens.
C4_FreeStandingList ==
    (pc = "value_done" /\ argd[1].type = "int" /\ FreeList(in_tokens)) =>
        /\ ret.kind = "return"
        /\ ret.val = ListVal([i \in 1..(Len(in_tokens) - 2) |->
                                  IntVal(DigitsValue(in_tokens[i + 1], 10))])
        /\ ret.tokens = <<>>

\* the list literal toks with its opening delimiter glued to the first
\* element and its closing delimiter glued to the last
Glued(toks) ==
    LET k == Len(toks) - 2
    IN  IF k = 0 THEN <<toks[1] \o toks[2]>>
        ELSE IF k = 1 THEN <<toks[1] \o toks[2] \o toks[3]>>
        ELSE <<toks[1] \o toks[2]>> \o SubSeq(toks, 3, k)
                 \o <<toks[k + 1] \o toks[k + 2]>>

\* C5 (as claimed): a list literal whose delimiters are glued to its first
\* and last element parses to the same value, with the same tokens left, as
\* the literal whose delimiters are tokens of their own.
C5_GluedEquivalence ==
    (pc = "value_done" /\ FreeList(in_tokens)) =>
        LET g == parse_value(Glued(in_tokens), argd[1])
        IN  /\ g.ok = (ret.kind = "return")
            /\ g.ok => (g.val = ret.val /\ g.tokens = ret.tokens)

\* C8 (as claimed): when the tokens run out while the literal is still open
\* (no closing delimiter occurs anywhere in the stream), the call ends with
\* an error and returns no value.
C8_Unterminated ==
    (/\ pc = "value_done"
     /\ \A i \in 1..Len(in_tokens) : Chars(in_tokens[i]) \cap {"]", "}"} = {})
    => ret.kind = "raise"

\* the key and the value text of a mapping entry token `key:value`
EntryKey(e) == SubSeq(e, 1, FirstIndex(e, ":") - 1)
EntryVal(e) == SubSeq(e, FirstIndex(e, ":") + 1, Len(e))

\* e is an identifier, the separator, and a digit token
IsEntry(e) ==
    /\ FirstIndex(e, ":") > 1
    /\ IsIdent(EntryKey(e))
    /\ IsNumber(EntryVal(e))

\* toks is a mapping literal whose delimiters are tokens of their own:
\* '{', entries key:digits, '}'
FreeDict(toks) ==
    /\ Len(toks) >= 2
    /\ toks[1] = <<"{">> /\ toks[Len(toks)] = <<"}">>
    /\ \A i \in 2..(Len(toks) - 1) : IsEntry(toks[i])

\* C6: parse_value on ['{', 'k1:v1', ..., 'kn:vn', '}'] returns a mapping
\* and consumes exactly the literal's tokens; the mapping holds each key
\* once, in the order of the keys' first occurrences, with the value decoded
\* from the key's last occurrence.
C6_MappingLiteral ==
    (pc = "value_done" /\ FreeDict(in_tokens)) =>
        LET E == 2..(Len(in_tokens) - 1)
            key(i) == EntryKey(in_tokens[i])
            firsts == {i \in E : \A j \in E : j < i => key(j) # key(i)}
            last(i) == CHOOSE j \in E :
                           key(j) = key(i) /\ \A h \in E : key(h) = key(i) => h <= j
            \* the position in the stream of the first entry of the m-th key
            nth(m) == CHOOSE i \in firsts : Cardinality({j \in firsts : j <= i}) = m
        IN  /\ ret.kind = "return"
            /\ ret.tokens = <<>>
            /\ ret.val = DictVal([m \in 1..Cardinality(firsts) |->
                   [k |-> key(nth(m)),
                    v |-> Decoded(EntryVal(in_tokens[last(nth(m))]), argd[1].type)]])

\* C6 witness: a returned mapping of two keys whose first key was written
\* twice
C6_Witness ==
    /\ pc = "value_done" /\ FreeDict(in_tokens)
    /\ Len(in_tokens) = 5
    /\ EntryKey(in_tokens[2]) = EntryKey(in_tokens[4])
    /\ EntryVal(in_tokens[2]) # EntryVal(in_tokens[4])
    /\ EntryKey(in_tokens[3]) # EntryKey(in_tokens[2])
    /\ ret.kind = "return" /\ Len(ret.val.v) = 2

\* the token t without the closing delimiters at its end
RECURSIVE StripClosers(_)
StripClosers(t) ==
    IF Len(t) > 0 /\ t[Len(t)] \in {"]", "}"}
    THEN StripClosers(SubSeq(t, 1, Len(t) - 1))
    ELSE t

\* t is an identifier followed by the separator and a remainder, which may
\* be empty
EntryShape(t) == \E i \in 2..Len(t) : t[i] = ":" /\ IsIdent(SubSeq(t, 1, i - 1))

\* the call was made on a mapping literal that has a token in the key
\* position of its first entry
HasKeyToken ==
    /\ pc = "value_done"
    /\ in_tokens[1][1] = "{"
    /\ Len(in_tokens[1]) > 1 \/ (Len(in_tokens) > 1 /\ in_tokens[2] # <<"}">>)

\* the token in the key position of the first entry
KeyToken == IF Len(in_tokens[1]) > 1 THEN Tail(in_tokens[1]) ELSE in_tokens[2]

\* the call raised the syntax error of a malformed entry, naming t
EntryError(t) == ret.kind = "raise" /\ ret.err = ArgSyntaxError(t, "Key:Value")

\* C9 (as claimed): a key-position token that matches identifier ':' rest is
\* accepted, and one that does not match aborts the parse with
\* ArgSyntaxError(received = the token, expected = the key:value shape).
\* Stated for tokens that carry no delimiter character.
C9_EntrySyntax ==
    (HasKeyToken /\ Chars(KeyToken) \cap {"[", "]", "{", "}"} = {}) =>
        IF EntryShape(KeyToken)
        THEN /\ ~EntryError(KeyToken)
             /\ ret.kind = "return" => ret.val.v[1].k = EntryKey(KeyToken)
        ELSE EntryError(KeyToken)

\* C9 (amended): the closing delimiters glued to the end of a key-position
\* token are split off first.  If what is left matches identifier ':' rest
\* with a rest that is not empty, the entry is accepted: no entry error is
\* raised for it and its identifier is the mapping's first key.  Otherwise
\* the parse aborts with ArgSyntaxError(received = what is left of the
\* token, expected = "Key:Value"); a token that is just the list's closing
\* delimiter aborts with ArgSyntaxError("]", "key:value or }").
C9_EntrySyntaxAmended ==
    HasKeyToken =>
        LET t == StripClosers(KeyToken)
        IN  IF KeyToken = <<"]">>
            THEN ret.kind = "raise"
                 /\ ret.err = ArgSyntaxError(KeyToken, "key:value or }")
            ELSE IF EntryShape(t) /\ FirstIndex(t, ":") < Len(t)
            THEN /\ ~EntryError(t)
                 /\ ret.kind = "return" => ret.val.v[1].k = EntryKey(t)
            ELSE EntryError(t)

\* C9 witness: the entry 'a:' with nothing after the separator was refused
C9_Witness ==
    /\ HasKeyToken
    /\ KeyToken = <<"a", ":">>
    /\ EntryError(KeyToken)
\* the spec list of the call has unique names and no variadic spec
UniqueNoVariadic ==
    /\ \A i, j \in 1..Len(caller_argd) :
           caller_argd[i].name = caller_argd[j].name => i = j
    /\ \A i \in 1..Len(caller_argd) : caller_argd[i].kind \notin {"VPOS", "VKW"}

\* how often the spec a is bound in the positionals list ps and the keywords
\* mapping ks taken together
TimesBound(a, ps, ks) ==
    Cardinality({i \in 1..Len(ps) : ps[i].arg = a})
        + Cardinality({i \in 1..Len(ks) : ks[i].v.arg = a})

\* the name a flag/keyword token carries: what follows the flag character, up
\* to the first "="
FlagName(t) ==
    IF FirstIndex(Tail(t), kw_eq_char) = 0 THEN Tail(t)
    ELSE SubSeq(Tail(t), 1, FirstIndex(Tail(t), kw_eq_char) - 1)

\* the head token of the running loop is a flag/keyword token that names a
\* spec of the call which is bound already
AtBoundAgain ==
    /\ pc = "loop" /\ Len(tokens) > 0 /\ Len(argd) > 0
    /\ startswith(tokens[1], kw_flag_char)
    /\ \E i \in 1..Len(caller_argd) :
           /\ caller_argd[i].name = FlagName(tokens[1])
           /\ TimesBound(caller_argd[i], args, kwargs) > 0

\* C11: for a spec list with unique names and no variadic spec, at every
\* point of the call and in what it returns, each spec is bound at most once
\* across positionals and keywords taken together, and a bound spec is no
\* longer in the working list; a later flag/keyword token that names a bound
\* spec binds nothing and, when the step does not raise, adds to leftover.
C11_BindOnce ==
    /\ [](UniqueNoVariadic =>
            /\ \A i \in 1..Len(caller_argd) :
                   /\ TimesBound(caller_argd[i], args, kwargs) <= 1
                   /\ TimesBound(caller_argd[i], args, kwargs) = 1 =>
                          \A j \in 1..Len(argd) : argd[j] # caller_argd[i]
            /\ pc = "returned" =>
                   \A i \in 1..Len(caller_argd) :
                       TimesBound(caller_argd[i], ret.positionals, ret.keywords) <= 1)
    /\ [][(UniqueNoVariadic /\ AtBoundAgain) =>
            /\ args' = args
            /\ kwargs' = kwargs
            /\ pc' = "loop" =>
                   /\ Len(xs_tokens') > Len(xs_tokens)
                   /\ SubSeq(xs_tokens', 1, Len(xs_tokens)) = xs_tokens
                   /\ FlagName(xs_tokens'[Len(xs_tokens) + 1]) = FlagName(tokens[1])]_vars

\* C11 witness: ['-p=a', '-p=a', '5'] returned with p bound once, as a
\* keyword, the second '-p=a' in leftover and '5' bound to another spec
C11_Witness ==
    /\ pc = "returned"
    /\ Len(in_tokens) = 3
    /\ in_tokens[1] = <<"-","p","=","a">> /\ in_tokens[2] = in_tokens[1]
    /\ in_tokens[3] = <<"5">>
    /\ Len(ret.keywords) = 1 /\ ret.keywords[1].k = <<"p">>
    /\ Len(ret.positionals) = 1 /\ ret.positionals[1].arg.name = <<"n">>
    /\ Len(ret.leftover) = 2
\* C12: no step of a call parse(tokens, argd) changes the contents of the
\* list the caller passed as argd, whether the call goes on to return or to
\* raise, although the working list loses every matched spec; so a second
\* call with the same tokens and the list as the first call left it has the
\* outcome of the first.
C12_SpecListUntouched ==
    /\ [][caller_argd' = caller_argd]_vars
    /\ [](pc \in {"returned", "raised"} => parse(in_tokens, caller_argd) = ret)

\* C12 witness: a call that bound a positional and a keyword returned; its
\* working list is two specs shorter than the caller's list
C12_Witness ==
    /\ pc = "returned"
    /\ Len(ret.positionals) = 1 /\ Len(ret.keywords) = 1
    /\ Len(argd) + 2 = Len(caller_argd)
    /\ \A i \in 1..Len(argd) : \E j \in 1..Len(caller_argd) : caller_argd[j] = argd[i]
\* C13 (as claimed): when a call parse(tokens, argd) has returned or raised,
\* the list the caller passed as tokens holds what it held when the call was
\* made, so that parsing the same list object again gives the outcome of the
\* first call.
C13_TokensUnchanged ==
    pc \in {"returned", "raised"} =>
        /\ caller_tokens = in_tokens
        /\ parse(caller_tokens, caller_argd) = ret
\* the entries of the aliases list of the spec a
Aliases(a) == {a.names[i] : i \in 1..Len(a.names)}

\* C14 (as claimed): when the first token of a call is a flag/keyword token
\* whose name is any entry of the aliases list of a spec of the call, the
\* returned keywords hold a binding of that spec under its canonical name.
C14_AliasLookup ==
    (/\ pc = "returned"
     /\ Len(in_tokens) > 0
     /\ startswith(in_tokens[1], kw_flag_char))
    => \A i \in 1..Len(caller_argd) :
           FlagName(in_tokens[1]) \in Aliases(caller_argd[i]) =>
               \E e \in 1..Len(ret.keywords) :
                   /\ ret.keywords[e].k = caller_argd[i].name
                   /\ ret.keywords[e].v.arg = caller_argd[i]
\* a is a subsequence of b: the elements of a occur in b, unchanged and in
\* the same relative order
RECURSIVE IsSubseq(_, _)
IsSubseq(a, b) ==
    IF Len(a) = 0 THEN TRUE
    ELSE IF Len(b) = 0 THEN FALSE
    ELSE IF Head(a) = Head(b) THEN IsSubseq(Tail(a), Tail(b))
    ELSE IsSubseq(a, Tail(b))

\* C15 (as claimed): whenever parse returns, the returned leftover is a
\* subsequence of the token vector the call was made with: every leftover
\* element is one of the input tokens, character for character, in the
\* original relative order.
C15_LeftoverVerbatim ==
    pc = "returned" => IsSubseq(ret.leftover, in_tokens)
\* the head token of the running loop matches no spec: a flag/keyword token
\* whose name no spec of the working list carries, or a positional token
\* when the working list holds no spec of a positional kind
AtUnmatched ==
    /\ pc = "loop" /\ Len(tokens) > 0 /\ Len(argd) > 0
    /\ IF startswith(tokens[1], kw_flag_char)
       THEN Named(argd, FlagName(tokens[1])) = {}
       ELSE \A i \in 1..Len(argd) : argd[i].kind \notin {"POS", "POSKW", "VPOS"}

\* C16 (as claimed): a step of the loop whose head token matches no spec
\* never makes parse raise, whatever the token and the value tokens passed
\* through with it look like.
C16_UnknownNeverRaises ==
    [][AtUnmatched => pc' # "raised"]_vars
\* the index of the first token of toks that holds a closing delimiter, 0
\* when there is none
FirstCloser(toks) ==
    IF \E j \in 1..Len(toks) : Chars(toks[j]) \cap {"]", "}"} # {}
    THEN CHOOSE j \in 1..Len(toks) :
             /\ Chars(toks[j]) \cap {"]", "}"} # {}
             /\ \A i \in 1..(j - 1) : Chars(toks[i]) \cap {"]", "}"} = {}
    ELSE 0

\* the token t is the closing delimiter c, alone or glued to the end of a
\* text that holds no closing delimiter
EndsWithOnly(t, c) ==
    /\ endswith(t, c)
    /\ Chars(removesuffix(t, c)) \cap {"]", "}"} = {}

\* the element the list reader decodes from the text t: what follows an
\* opening "[" (the empty text after a free-standing one), else t itself
ElemText(t) == IF startswith(t, "[") THEN Tail(t) ELSE t

\* the text decodes under the declared type
Decodes(txt, type) == type # "int" \/ IsNumber(txt)

\* parse_value was called on a list literal (lists may be nested in it, no
\* mapping is) in which the mapping's "}" comes before any "]", alone or
\* glued to the preceding value, and every element ahead of it decodes
ListMeetsDictEnd ==
    /\ pc = "value_done"
    /\ startswith(in_tokens[1], "[")
    /\ FirstCloser(in_tokens) > 0
    /\ EndsWithOnly(in_tokens[FirstCloser(in_tokens)], "}")
    /\ \A i \in 1..FirstCloser(in_tokens) :
           /\ "{" \notin Chars(in_tokens[i])
           /\ IF i < FirstCloser(in_tokens)
              THEN Decodes(ElemText(in_tokens[i]), argd[1].type)
              ELSE in_tokens[i] = <<"}">>
                   \/ Decodes(ElemText(removesuffix(in_tokens[i], "}")), argd[1].type)

\* the text of the i-th entry of the mapping literal toks that precedes the
\* token j: what follows the opening "{" for i = 1, else the token
EntryText(toks, i) == IF i = 1 THEN Tail(toks[1]) ELSE toks[i]

\* parse_value was called on a mapping literal in which the list's "]" comes
\* before any "}", alone or glued to the preceding entry, and every entry
\* ahead of it is identifier ":" digits
DictMeetsListEnd ==
    /\ pc = "value_done"
    /\ startswith(in_tokens[1], "{")
    /\ FirstCloser(in_tokens) > 1
    /\ EndsWithOnly(in_tokens[FirstCloser(in_tokens)], "]")
    /\ \A i \in 1..FirstCloser(in_tokens) :
           IF i < FirstCloser(in_tokens)
           THEN EntryText(in_tokens, i) = <<>> \/ IsEntry(EntryText(in_tokens, i))
           ELSE in_tokens[i] = <<"]">> \/ IsEntry(removesuffix(in_tokens[i], "]"))

\* C17: a list literal that meets the mapping's closing delimiter "}" before
\* its own "]" aborts with ArgSyntaxError naming "}", and a mapping literal
\* that meets "]" before its own "}" aborts with ArgSyntaxError naming "]";
\* the call returns no value.  Stated for literals whose elements ahead of
\* the wrong delimiter decode (after a free-standing "[" an integer spec
\* fails on the empty first element before the delimiter is reached).
C17_MismatchedCloser ==
    /\ ListMeetsDictEnd =>
           /\ ret.kind = "raise"
           /\ ret.err = ArgSyntaxError(<<"}">>, "value or ]")
    /\ DictMeetsListEnd =>
           /\ ret.kind = "raise"
           /\ ret.err = ArgSyntaxError(<<"]">>, "key:value or }")

\* C17 witness: the integer list ['[1', '2', '1}'] was refused at the "}"
\* glued to its third element
C17_Witness ==
    /\ ListMeetsDictEnd
    /\ argd[1].type = "int"
    /\ in_tokens = <<(<<"[","1">>), (<<"2">>), (<<"1","}">>)>>
    /\ ret.kind = "raise" /\ ret.err.type = "ArgSyntaxError"
\* the inline value of a keyword token: what follows its first "="
InlineValue(t) == SubSeq(t, FirstIndex(t, kw_eq_char) + 1, Len(t))

\* the head token of the running loop is '-n=v' with v not empty and n the
\* name of a spec of the working list
AtInline ==
    /\ pc = "loop" /\ Len(tokens) > 0 /\ Len(argd) > 0
    /\ startswith(tokens[1], kw_flag_char)
    /\ FirstIndex(tokens[1], kw_eq_char) > 2
    /\ FirstIndex(tokens[1], kw_eq_char) < Len(tokens[1])
    /\ Named(argd, FlagName(tokens[1])) # {}

\* the step bound the spec a under the name n to val and left every other
\* keyword as it was
BoundKeyword(n, a, val) ==
    /\ \E e \in 1..Len(kwargs') :
           kwargs'[e].k = n /\ kwargs'[e].v = [arg |-> a, val |-> val]
    /\ \A e \in 1..Len(kwargs') :
           kwargs'[e].k # n => e <= Len(kwargs) /\ kwargs'[e] = kwargs[e]

\* C18: when the loop meets '-n=v' (v not empty) and the working list holds a
\* spec named n, the step reads one value from v followed by the rest of
\* the stream with the reader and the decoder of that spec's declared type:
\* if that raises, parse raises the same error; otherwise the step binds
\* n -> that value in keywords, removes the spec from the working list,
\* leaves the stream where the value ended and touches neither positionals
\* nor leftover.  A v that opens no literal is everything after the first
\* "=": it is decoded on its own (an int for an int spec, the text itself
\* for a str spec) and the token after '-n=v' stays at the head of the
\* stream; the v '[1' followed by '2]' binds the list [1, 2] for an int spec
\* and consumes both tokens.
C18_InlineStep ==
    AtInline =>
        LET n == FlagName(tokens[1])
            v == InlineValue(tokens[1])
            i == CHOOSE i \in Named(argd, n) : \A j \in Named(argd, n) : i <= j
            r == parse_value(<<v>> \o Tail(tokens), argd[i])
        IN  /\ ~r.ok => pc' = "raised" /\ ret'.err = r.err
            /\ r.ok =>
                   /\ pc' = "loop"
                   /\ BoundKeyword(n, argd[i], r.val)
                   /\ tokens' = r.tokens
                   /\ argd' = Without(argd, i)
                   /\ args' = args
                   /\ xs_tokens' = xs_tokens
            /\ (v[1] \notin {"[", "{"} /\ Decodes(v, argd[i].type)) =>
                   /\ BoundKeyword(n, argd[i], Decoded(v, argd[i].type))
                   /\ tokens' = Tail(tokens)
            /\ (/\ v = <<"[", "1">> /\ argd[i].type = "int"
                /\ Len(tokens) > 1 /\ tokens[2] = <<"2", "]">>) =>
                   /\ BoundKeyword(n, argd[i], ListVal(<<IntVal(1), IntVal(2)>>))
                   /\ tokens' = Tail(Tail(tokens))

C18_InlineValue == [][C18_InlineStep]_vars

\* C18 witness: ['-n=[1', '2]', '5'] returned with n -> [1, 2] and the token
\* after the literal bound as a positional
C18_Witness ==
    /\ pc = "returned"
    /\ in_tokens = <<(<<"-","n","=","[","1">>), (<<"2","]">>), (<<"5">>)>>
    /\ Len(ret.keywords) = 1
    /\ ret.keywords[1].k = <<"n">>
    /\ ret.keywords[1].v.val = ListVal(<<IntVal(1), IntVal(2)>>)
    /\ Len(ret.positionals) = 1 /\ ret.positionals[1].val = StrVal(<<"5">>)
\* the head token of the running loop is a positional
AtPositional ==
    /\ pc = "loop" /\ Len(tokens) > 0 /\ Len(argd) > 0
    /\ ~startswith(tokens[1], kw_flag_char)

\* the specs of the list l whose kind takes positionals, by position
PositionalKind(l) == {i \in 1..Len(l) : l[i].kind \in {"POS", "POSKW", "VPOS"}}

\* C19 (as claimed): a positional token is bound to the first spec of a
\* positional kind remaining in the working list, keyword-only specs ahead
\* of it being skipped: unless decoding raises, the step adds one
\* positionals entry for that spec and nothing to leftover.  The token goes
\* to leftover only when the working list holds no spec of a positional
\* kind.
C19_SkipsKeywordOnlyStep ==
    AtPositional =>
        IF PositionalKind(argd) # {}
        THEN pc' = "loop" =>
                 /\ Len(args') = Len(args) + 1
                 /\ args'[Len(args')].arg =
                        argd[CHOOSE i \in PositionalKind(argd) :
                                 \A j \in PositionalKind(argd) : i <= j]
                 /\ xs_tokens' = xs_tokens
        ELSE pc' = "loop" => args' = args /\ Len(xs_tokens') > Len(xs_tokens)

C19_SkipsKeywordOnly == [][C19_SkipsKeywordOnlyStep]_vars
\* the call was made with the single token 'name=value', without the flag
\* character, name being an identifier that names a spec of the call
BareKeywordCall ==
    /\ pc \in {"returned", "raised"}
    /\ Len(in_tokens) = 1
    /\ ~startswith(in_tokens[1], kw_flag_char)
    /\ FirstIndex(in_tokens[1], kw_eq_char) > 1
    /\ FirstIndex(in_tokens[1], kw_eq_char) < Len(in_tokens[1])
    /\ Named(caller_argd, SubSeq(in_tokens[1], 1, FirstIndex(in_tokens[1], kw_eq_char) - 1)) # {}

\* C20 (as claimed): the token 'name=value' is treated exactly like
\* '-name=value': the call has the outcome of the call made with the flag
\* character put in front of the token, so the value is bound under name in
\* keywords and no positional is bound.
C20_BareKeyword ==
    BareKeywordCall =>
        /\ ret = parse(<<(<<kw_flag_char>> \o in_tokens[1])>>, caller_argd)
        /\ ret.kind = "return" =>
               /\ ret.positionals = <<>>
               /\ Len(ret.keywords) = 1
               /\ ret.keywords[1].v.val =
                      Decoded(InlineValue(in_tokens[1]), ret.keywords[1].v.arg.type)
\* the call was made with a first token that is the flag character, the name
\* n of a spec of the call, and then nothing ('-n') or just "=" ('-n=')
NoInlineValueCall(n) ==
    /\ pc \in {"returned", "raised"}
    /\ Len(in_tokens) > 0
    /\ kw_eq_char \notin Chars(n)
    /\ in_tokens[1] \in {<<kw_flag_char>> \o n, <<kw_flag_char>> \o n \o <<kw_eq_char>>}
    /\ Named(caller_argd, n) # {}

\* C21 (as claimed): a flag token that matches a spec and carries no inline
\* value, '-n=' as well as '-n', binds n -> True and does not consume the
\* token that follows: the call has the outcome of parsing the rest of the
\* stream against the remaining specs, with n -> True added in front of the
\* keywords; at the end of the stream the binding is True as well.
C21_NothingAfterSeparator ==
    \A n \in {FlagName(t) : t \in TokenPool \cup KwTokenPool} :
        NoInlineValueCall(n) =>
            LET a == caller_argd[FirstNamed(n)]
                rest == parse(Tail(in_tokens), Without(caller_argd, FirstNamed(n)))
            IN  IF rest.kind = "raise" THEN ret = rest
                ELSE ret = [rest EXCEPT
                               !.keywords = OneKeyword(n, a, BoolVal(TRUE)) \o @]
\* what is left to read of a stream: its characters and its tokens
RECURSIVE Weight(_)
Weight(toks) ==
    IF toks = <<>> THEN 0 ELSE Len(Head(toks)) + 1 + Weight(Tail(toks))

\* the call has returned an outcome or raised a parse error
Finished == pc \in {"returned", "raised"}

\* a turn that stays in the loop leaves less of the stream to read than it
\* found, whatever the readers put back at its head
TurnShrinks == (pc = "loop" /\ pc' = "loop") => Weight(tokens') < Weight(tokens)

\* a turn raises a parse error or an argument syntax error, nothing else
TurnRaises ==
    pc' = "raised" =>
        /\ pc = "loop" /\ Len(tokens) > 0 /\ Len(argd) > 0
        /\ ret'.kind = "raise"
        /\ ret'.err.type \in {"ParseError", "ArgSyntaxError"}

\* with the stream exhausted the loop stops: the step taken is the return of
\* what was bound so far, whatever specs are still unbound
ExhaustedReturns ==
    (pc = "loop" /\ tokens = <<>>) =>
        /\ pc' = "returned"
        /\ ret'.kind = "return"
        /\ ret'.positionals = args
        /\ ret'.keywords = kwargs
        /\ ret'.leftover = xs_tokens
        /\ argd' = argd

\* C22: for every token vector and spec list parse eventually returns an
\* outcome or raises a parse error.  Every turn of the resolver loop that
\* does not end the call leaves strictly less of the stream (characters plus
\* tokens) than it found, although inline-value splitting and delimiter
\* splitting put text back at the head of the stream; and once the stream is
\* exhausted the next step is the return, without error, of the bindings
\* made so far, even when specs are still unbound.  No turn leaves the
\* locals of the call as it found them.
C22_Termination ==
    /\ <>Finished
    /\ [][TurnShrinks /\ TurnRaises /\ ExhaustedReturns]_vars
    /\ [](Finished => (ret.kind = "return") = (pc = "returned"))
    /\ [](Turn => parse_iter(Cur) # Cur)

\* C22 witness: a call whose first token carried an inline value opening a
\* list that the next token closes (both splittings happened) has returned
\* with the stream exhausted, the value bound, nothing left over and a spec
\* still unbound.
C22_Witness ==
    /\ pc = "returned" /\ ret.kind = "return"
    /\ tokens = <<>> /\ ret.leftover = <<>>
    /\ Len(argd) > 0 /\ Len(ret.keywords) > 0
    /\ Len(in_tokens) > 1
    /\ startswith(in_tokens[1], kw_flag_char)
    /\ FirstIndex(in_tokens[1], kw_eq_char) > 2
    /\ FirstIndex(in_tokens[1], kw_eq_char) < Len(in_tokens[1])
    /\ startswith(InlineValue(in_tokens[1]), list_chars[1])
    /\ endswith(in_tokens[Len(in_tokens)], list_chars[2])
    /\ Len(in_tokens[Len(in_tokens)]) > 1

====
